---- MODULE Spec2Model ----
(***************************************************************************)
(* Model of the control-plane instance reconciler                          *)
(* (pkg/controller/servicemesh/controlplane/reconciler.go).                *)
(*                                                                         *)
(* Spec: SetInstance and Reconcile.  Reconcile is modelled step by step:   *)
(* every boundary call (version parsing, chart rendering, cluster reads    *)
(* and writes, readiness inspection, pruning) is one step whose result is  *)
(* chosen from the answers the boundary can give.  The two deferred        *)
(* functions of Reconcile run in the step Return.  The framework delivers  *)
(* the stored resource with SetInstance before every invocation.           *)
(* PostSpec: PostStatus called on its own, over all responses.             *)
(* TemplateSpec: applyTemplates with the call stack of                     *)
(* recursivelyApplyTemplates, over all contents of the template files.     *)
(* RestartSpec: Spec begun by a reconciler newly constructed on a resource *)
(* whose stored status shows a paused cycle.                               *)
(* MergeSpec: mergeValues applied to bounded helm values.                  *)
(* OrderSpec: getChartsInInstallationOrder over all sets of rendered       *)
(* charts.                                                                 *)
(* SchemaSpec: RemoveTypeObjectFieldsFromCRDSchema (package hacks) called   *)
(* on bounded CRD validation schemas.                                      *)
(* ProgressSpec: Spec for one generation, with no failing operation,       *)
(* components that become and stay ready, and fairness.                    *)
(***************************************************************************)
EXTENDS Integers, Sequences, FiniteSets, TLC

\* ------------------------------------------------------------------ bounds

\* highest generation of the ServiceMeshControlPlane resource
MaxGen == 2
\* deepest nesting of recursivelyApplyTemplates that is followed
MaxDepth == 4
\* most requests of the status post that do not succeed
MaxFaults == 1
\* most calls of the CRD schema sanitizer on one CRD
MaxCalls == 2

\* ------------------------------------------------------------------ charts

\* A chart identifier is a path; it is modelled as its sequence of segments.
istio == <<"istio">>
security == <<"istio", "charts", "security">>
prometheus == <<"istio", "charts", "prometheus">>
tracing == <<"istio", "charts", "tracing">>
galley == <<"istio", "charts", "galley">>
mixer == <<"istio", "charts", "mixer">>
pilot == <<"istio", "charts", "pilot">>
gateways == <<"istio", "charts", "gateways">>
sidecarInjectorWebhook == <<"istio", "charts", "sidecarInjectorWebhook">>
grafana == <<"istio", "charts", "grafana">>
kiali == <<"istio", "charts", "kiali">>
threescale == <<"maistra-threescale">>
\* charts that orderedCharts does not list
nodeagent == <<"istio", "charts", "nodeagent">>
certmanager == <<"istio", "charts", "certmanager">>
istioInit == <<"istio-init">>

\* these components have to be installed in the specified order
orderedCharts ==
  << <<istio>>, <<security>>, <<prometheus>>, <<tracing>>, <<galley>>,
     <<mixer, pilot, gateways, sidecarInjectorWebhook>>, <<grafana>>, <<kiali>> >>

\* path.Split(chartName): the component is the last segment
componentFromChartName(chartName) == chartName[Len(chartName)]

\* strings.HasPrefix(chart, "istio/")
HasIstioPrefix(chart) == Len(chart) > 1 /\ chart[1] = "istio"

\* the elements of a sequence
Range(s) == {s[i] : i \in 1..Len(s)}

\* the subsequence of s whose elements are in keys, in the order of s
RECURSIVE Filter(_, _)
Filter(s, keys) ==
  IF s = <<>> THEN <<>>
  ELSE IF Head(s) \in keys THEN <<Head(s)>> \o Filter(Tail(s), keys)
       ELSE Filter(Tail(s), keys)

\* every ordering of a finite set, as sequences (Go's map iteration order)
RECURSIVE Orderings(_)
Orderings(S) ==
  IF S = {} THEN {<<>>}
  ELSE UNION {{<<x>> \o rest : rest \in Orderings(S \ {x})} : x \in S}

\* predefined groups that are kept when none of their charts is rendered
RECURSIVE OrderedGroups_KeepEmpty(_, _)
OrderedGroups_KeepEmpty(groups, keys) ==
  IF groups = <<>> THEN <<>>
  ELSE <<Filter(Head(groups), keys)>> \o OrderedGroups_KeepEmpty(Tail(groups), keys)

\* first loop of getChartsInInstallationOrder: the predefined groups, each
\* restricted to the rendered charts, empty groups skipped
RECURSIVE OrderedGroups(_, _)
OrderedGroups(groups, keys) ==
  IF groups = <<>> THEN <<>>
  ELSE LET chartsToDeploy == Filter(Head(groups), keys)
       IN  IF Len(chartsToDeploy) > 0
           THEN <<chartsToDeploy>> \o OrderedGroups(Tail(groups), keys)
           ELSE OrderedGroups(Tail(groups), keys)

\* a sequence of singleton groups
Singletons(s) == [i \in 1..Len(s) |-> <<s[i]>>]

\* the charts of a list of groups
ChartsOf(groups) == UNION {Range(groups[i]) : i \in 1..Len(groups)}

\* getChartsInInstallationOrder: the lists the function can return for the
\* rendered charts keys (the two trailing loops range over a map)
getChartsInInstallationOrder(keys) ==
  LET first == OrderedGroups(orderedCharts, keys)
      seen == ChartsOf(first)
      istioRest == {c \in keys : HasIstioPrefix(c) /\ c \notin seen}
      others == {c \in keys : c \notin seen /\ c \notin istioRest}
  IN  {first \o Singletons(a) \o Singletons(b) :
         a \in Orderings(istioRest), b \in Orderings(others)}

\* the charts the chart renderer returns for the core tree and for the
\* extension tree
CoreRenderings == {istio, mixer, pilot}
ThreeScaleRenderings == {threescale}

\* ------------------------------------------------------------------ status

ConditionTypes == {"Reconciled", "Ready", "Installed"}
\* a condition's message: what it says and whether the cause of an error is
\* appended to it
Message(text) == [text |-> text, cause |-> FALSE]
NoMessage == Message("")
NoCondition == [status |-> "Absent", reason |-> "", message |-> NoMessage]
NoVersion == [operator |-> "", generation |-> 0]
\* LastAppliedConfiguration: the generation of the spec it was taken from
NoConfiguration == [generation |-> 0]

\* v2.ControlPlaneStatus of a resource that was never reconciled
EmptyStatus ==
  [conditions |-> [t \in ConditionTypes |-> NoCondition],
   ObservedGeneration |-> 0,
   ReconciledVersion |-> NoVersion,
   LastAppliedConfiguration |-> NoConfiguration,
   ComponentStatus |-> <<>>]

\* StatusType.GetCondition: a condition that is absent reads as Unknown
GetCondition(st, type) ==
  IF st.conditions[type].status = "Absent"
  THEN [status |-> "Unknown", reason |-> "", message |-> NoMessage]
  ELSE st.conditions[type]

\* StatusType.SetCondition
SetCondition(st, type, cond) == [st EXCEPT !.conditions[type] = cond]

\* status.CurrentReconciledVersion: the operator version and the generation
CurrentReconciledVersion(generation) == [operator |-> "current", generation |-> generation]

\* responses of the cluster API client
Responses == {"ok", "notfound", "gone", "error"}
IsGoneOrNotFound(resp) == resp \in {"notfound", "gone"}

\* ------------------------------------------------------------------ templates

\* the template files: their names, and what each holds: a file that cannot
\* be read from either directory, one that does not parse, or a template
\* naming its parent template ("" for none)
TemplateFiles == {"default", "A", "B"}
TemplateRefs == TemplateFiles \cup {"", "x/y"}
FileContents == {"missing", "unparsable"} \cup TemplateRefs
DefaultTemplate == "default"

\* helm values: a value is a scalar or a map from keys to values; a map
\* variable of Go can also be nil
Scalar(v) == [kind |-> "scalar", v |-> v]
Map(m) == [kind |-> "map", m |-> m]
Nil == [kind |-> "nil"]
Entries(value) == IF value.kind = "map" THEN value.m ELSE [k \in {} |-> Nil]

\* the values mergeValues is applied to: scalars, maps of scalars, and maps
\* of both; base holds the keys a and b at most, input b and c
Scalars == {Scalar(1), Scalar(2), Scalar(3)}
MapsOver(keys, vals) == {Map(m) : m \in UNION {[D -> vals] : D \in SUBSET keys}}
NestedMaps == MapsOver({"x", "y"}, Scalars)
BaseValues == {Nil} \cup MapsOver({"a", "b"}, Scalars \cup NestedMaps)
InputValues == {Nil} \cup MapsOver({"b", "c"}, Scalars \cup NestedMaps)
NoValues == [base |-> Nil, input |-> Nil, out |-> [kind |-> "none"]]

\* no CRD at hand: no validation schema, the sanitizer not called
NoCRD == [original |-> Nil, previous |-> Nil, schema |-> Nil, calls |-> 0, err |-> "nil"]

VARIABLES
  pc,                    \* position in Reconcile, "idle" between invocations
  Instance,              \* r.Instance: generation and status of the held resource
  Status,                \* r.Status: the working status
  renderings,            \* r.renderings: nil, or the rendered charts
  waitForComponents,     \* r.waitForComponents
  ownerRefs,             \* r.ownerRefs: generation of the owner, 0 when unset
  meshGeneration,        \* r.meshGeneration
  cniEnabled,            \* r.cniConfig.Enabled
  err,                   \* Reconcile's named result err ("nil" when nil)
  reconciliationReason,  \* locals of Reconcile
  reconciliationMessage,
  reconciliationComplete,
  deferReset,            \* the error-handling defer of line 116 is registered
  groups,                \* chart groups the install loop still has to visit
  charts,                \* charts of the current group still to process
  stored,                \* the cluster stores exactly the working status
  faults,                \* status requests that did not succeed so far
  last,                  \* the latest step: what it was given and what it emitted
  files,                 \* template resolution: contents of the template files
  smcp,                  \* the spec given to applyTemplates
  stack,                 \* templates whose recursivelyApplyTemplates call is open
  call,                  \* template named by the spec of the innermost call
  visited,               \* the visited set
  merged,                \* templates merged so far, in order
  result,                \* progress and result of applyTemplates
  pins,                  \* template files whose values set global.tag or global.hub
  values,                \* arguments and result of a call of mergeValues
  crd,                   \* a CRD's validation schema and the calls of the sanitizer
  readySet               \* the components that are ready, and stay ready

reconciler == <<pc, Instance, Status, renderings, waitForComponents, ownerRefs,
                meshGeneration, cniEnabled, err, reconciliationReason,
                reconciliationMessage, reconciliationComplete, deferReset, groups,
                charts, stored, faults>>
resolution == <<files, smcp, stack, call, visited, merged, result, pins, values,
                crd, readySet>>
vars == <<reconciler, last, resolution>>

session == <<renderings, waitForComponents, ownerRefs, meshGeneration>>
locals == <<err, reconciliationReason, reconciliationMessage,
            reconciliationComplete, deferReset>>
loop == <<groups, charts>>
env == <<stored, faults, cniEnabled>>

NilRenderings == [nil |-> TRUE, keys |-> {}]
NoProbe == [done |-> FALSE, failed |-> FALSE, ready |-> {}]

\* no chart tree was rendered
NoRender ==
  [enabled |-> "absent", failing |-> {}, attempted |-> {}, errors |-> {}, err |-> "nil"]

\* a step that was given nothing and emitted nothing
Step(op) ==
  [op |-> op, events |-> <<>>, posts |-> 0, gets |-> 0, patches |-> 0,
   probe |-> NoProbe, tpl |-> "none", changed |-> FALSE, get |-> "none",
   patch |-> "none", returned |-> "nil", debounce |-> FALSE, substituted |-> FALSE,
   render |-> NoRender]

Event(type, reason, comps) == [type |-> type, reason |-> reason, comps |-> comps]

\* no template resolution in progress
NoResolution ==
  /\ files = [f \in TemplateFiles |-> ""]
  /\ smcp = [template |-> "", pinned |-> FALSE]
  /\ stack = <<>>
  /\ call = ""
  /\ visited = {}
  /\ merged = <<>>
  /\ result = [phase |-> "none", err |-> "nil"]
  /\ pins = {}
  /\ values = NoValues
  /\ crd = NoCRD
  /\ readySet = {}

\* NewControlPlaneInstanceReconciler
NewReconciler ==
  /\ pc = "idle"
  /\ renderings = NilRenderings
  /\ waitForComponents = {}
  /\ ownerRefs = 0
  /\ meshGeneration = NoVersion
  /\ cniEnabled \in BOOLEAN
  /\ err = "nil"
  /\ reconciliationReason = ""
  /\ reconciliationMessage = NoMessage
  /\ reconciliationComplete = FALSE
  /\ deferReset = FALSE
  /\ groups = <<>>
  /\ charts = <<>>
  /\ stored = TRUE
  /\ faults = 0
  /\ last = Step("New")

Init ==
  /\ NewReconciler
  /\ Instance = [generation |-> 1, status |-> EmptyStatus]
  /\ Status = EmptyStatus
  /\ NoResolution

\* isUpdating
isUpdating == Instance.status.ObservedGeneration # 0

\* PostStatus patching although the resource could not be fetched
PostStatus_Blind(st, getResp, patchResp) ==
  IF st = Instance.status
  THEN [err |-> "nil", gets |-> 0, patches |-> 0, written |-> FALSE]
  ELSE [err |-> IF patchResp = "ok" \/ IsGoneOrNotFound(patchResp)
                THEN "nil" ELSE "status",
        gets |-> 1, patches |-> 1, written |-> patchResp = "ok"]

\* PostStatus on working status st: its result, the requests it made and
\* whether the patch replaced the status the cluster stores
PostStatus(st, getResp, patchResp) ==
  IF st = Instance.status
  THEN [err |-> "nil", gets |-> 0, patches |-> 0, written |-> FALSE]
  ELSE IF getResp = "ok"
       THEN [err |-> IF patchResp = "ok" \/ IsGoneOrNotFound(patchResp)
                     THEN "nil" ELSE "status",
             gets |-> 1, patches |-> 1, written |-> patchResp = "ok"]
       ELSE [err |-> IF IsGoneOrNotFound(getResp) THEN "nil" ELSE "status",
             gets |-> 1, patches |-> 0, written |-> FALSE]

\* whether the cluster stores the working status after a step that leaves the
\* working status st and may have patched it
ClusterStatus == IF stored THEN Status ELSE Instance.status
Stored(st, written) == written \/ st = ClusterStatus

\* a request of PostStatus, or the readiness update before it, that did not
\* succeed
Fault(readinessOK, post, getResp, patchResp) ==
  \/ ~readinessOK
  \/ post.gets = 1 /\ getResp # "ok"
  \/ post.patches = 1 /\ patchResp # "ok"

\* faults are followed up to MaxFaults of them
CountFault(fault) ==
  /\ fault => faults < MaxFaults
  /\ faults' = IF fault THEN faults + 1 ELSE faults

\* initializeReconcileStatus setting the Installed condition on updates too
initializeReconcileStatus_Installed ==
  LET conditionReason == IF isUpdating THEN "SpecUpdated" ELSE "ResourceCreated"
      cond == [status |-> "False", reason |-> conditionReason,
               message |-> Message("ready")]
  IN  SetCondition(SetCondition(SetCondition(Status, "Installed", cond),
                                "Reconciled", cond), "Ready", cond)

\* initializeReconcileStatus: the working status it leaves
initializeReconcileStatus ==
  LET conditionReason == IF isUpdating THEN "SpecUpdated" ELSE "ResourceCreated"
      cond == [status |-> "False", reason |-> conditionReason,
               message |-> Message("ready")]
      st0 == IF isUpdating THEN Status ELSE SetCondition(Status, "Installed", cond)
  IN  SetCondition(SetCondition(st0, "Reconciled", cond), "Ready", cond)

\* Reconcile, lines 86-93: the Reconciled condition is not False
ReconcileInitialize(getResp, patchResp) ==
  /\ pc = "start"
  /\ GetCondition(Status, "Reconciled").status # "False"
  /\ LET st == initializeReconcileStatus
         post == PostStatus(st, getResp, patchResp)
     IN  /\ Status' = st
         /\ stored' = Stored(st, post.written)
         /\ CountFault(Fault(TRUE, post, getResp, patchResp))
         /\ last' = [Step("ReconcileInitialize") EXCEPT
                      !.events = <<Event("Normal",
                                         IF isUpdating THEN "Updating" ELSE "Installing",
                                         {})>>,
                      !.posts = 1, !.gets = post.gets, !.patches = post.patches,
                      !.returned = post.err]
  /\ pc' = "idle"
  /\ UNCHANGED <<Instance, session, locals, loop, cniEnabled, resolution>>

\* a return of Reconcile with error e and a message naming the step that
\* failed: the locals the deferred functions read
Abort(reason, e) ==
  /\ reconciliationReason' = reason
  /\ reconciliationMessage' = Message("error")
  /\ err' = e
  /\ pc' = "Return"
  /\ groups' = <<>>
  /\ charts' = <<>>
  /\ UNCHANGED <<reconciliationComplete, deferReset>>

\* pauseReconciliation: the reason and message it returns and the event it records
pauseReconciliation(waiting) ==
  LET conditionReason == IF isUpdating THEN "PausingUpdate" ELSE "PausingInstall"
  IN  [reason |-> conditionReason,
       message |-> Message("paused"),
       event |-> Event("Normal", conditionReason, waiting)]

\* a return of Reconcile through pauseReconciliation, with wait set waiting
Pause(waiting) ==
  LET p == pauseReconciliation(waiting)
  IN  /\ reconciliationReason' = p.reason
      /\ reconciliationMessage' = p.message
      /\ err' = "nil"
      /\ pc' = "Return"
      /\ groups' = <<>>
      /\ charts' = <<>>
      /\ UNCHANGED <<reconciliationComplete, deferReset>>

\* an install plan that leaves out the first chart group
InstallPlan_Rest ==
  {IF o = <<>> THEN o ELSE Tail(o) : o \in getChartsInInstallationOrder(renderings.keys)}

\* Reconcile, line 255: the install plan
InstallPlan == getChartsInInstallationOrder(renderings.keys)

\* Reconcile, line 255: the install loop is entered with plan order
EnterInstall(order) ==
  /\ groups' = order
  /\ charts' = <<>>
  /\ pc' = "Group"

\* Reconcile, lines 95-121 and the branch of lines 114 and 234
ReconcileBegin(order) ==
  /\ pc = "start"
  /\ GetCondition(Status, "Reconciled").status = "False"
  /\ reconciliationReason' = GetCondition(Status, "Reconciled").reason
  /\ reconciliationMessage' = GetCondition(Status, "Reconciled").message
  /\ reconciliationComplete' = FALSE
  /\ err' = "nil"
  /\ deferReset' = renderings.nil
  /\ IF renderings.nil
     THEN pc' = "ParseVersion" /\ UNCHANGED loop
     ELSE IF waitForComponents # {}
          THEN pc' = "WaitForComponents" /\ UNCHANGED loop
          ELSE EnterInstall(order)
  /\ last' = Step("ReconcileBegin")
  /\ UNCHANGED <<Instance, Status, session, env, resolution>>

\* Reconcile, lines 123-128: versions.ParseVersion
ParseVersion(ok) ==
  /\ pc = "ParseVersion"
  /\ IF ok
     THEN /\ pc' = "RenderCharts"
          /\ UNCHANGED locals
     ELSE /\ err' = "version"
          /\ pc' = "Return"
          /\ UNCHANGED <<reconciliationReason, reconciliationMessage,
                         reconciliationComplete, deferReset>>
  /\ last' = Step("ParseVersion")
  /\ UNCHANGED <<Instance, Status, session, loop, env, resolution>>

\* applyTemplates: tpl is the result of recursivelyApplyTemplates ("ok" or an
\* error), pinned whether global.tag or global.hub is set, disc whether
\* applyDisconnectedSettings succeeds
applyTemplates(tpl, pinned, disc) ==
  LET applyDisconnectedSettings == ~pinned
      err1 == IF tpl = "ok" THEN "nil" ELSE tpl
  IN  IF applyDisconnectedSettings
      THEN (IF disc THEN "nil" ELSE "images")
      ELSE err1

\* isEnabled: the enabled field of a section of the configuration is true
isEnabled(enabled) == enabled = "true"

\* the chart trees helm.RenderChart fails to render
FailingTrees(in) ==
  (IF in.coreOK THEN {} ELSE {"istio"}) \cup (IF in.tsOK THEN {} ELSE {"maistra-threescale"})

\* a renderCharts that keeps the core renderings when the 3scale tree fails
renderCharts_CachePartial(in) ==
  LET snapshot == [generation |-> Instance.generation]
      attempted == {"istio"} \cup
                   (IF isEnabled(in.threeScale) THEN {"maistra-threescale"} ELSE {})
      allErrors == attempted \cap FailingTrees(in)
      fail(e, conf) == [err |-> e, conf |-> conf, renderings |-> renderings,
                        render |-> NoRender]
      render == [enabled |-> in.threeScale, failing |-> FailingTrees(in),
                 attempted |-> attempted, errors |-> allErrors,
                 err |-> IF allErrors = {} THEN "nil" ELSE "aggregate"]
  IN  IF ~in.convert THEN fail("convert", Status.LastAppliedConfiguration)
      ELSE IF applyTemplates(in.tpl, in.pinned, in.disc) # "nil"
           THEN fail(applyTemplates(in.tpl, in.pinned, in.disc), snapshot)
      ELSE IF ~in.valid THEN fail("validate", snapshot)
      ELSE IF ~in.fields THEN fail("fields", snapshot)
      ELSE IF allErrors # {}
           THEN [err |-> "aggregate", conf |-> snapshot,
                 renderings |-> IF "istio" \in allErrors THEN renderings
                                ELSE [nil |-> FALSE, keys |-> CoreRenderings],
                 render |-> render]
      ELSE [err |-> "nil", conf |-> snapshot,
            renderings |-> [nil |-> FALSE,
                            keys |-> CoreRenderings \cup
                                     (IF isEnabled(in.threeScale)
                                      THEN ThreeScaleRenderings ELSE {})],
            render |-> render]

\* renderCharts: its error, the LastAppliedConfiguration it leaves, the
\* renderings it leaves, and the chart trees it rendered with their errors
renderCharts(in) ==
  LET snapshot == [generation |-> Instance.generation]
      attempted == {"istio"} \cup
                   (IF isEnabled(in.threeScale) THEN {"maistra-threescale"} ELSE {})
      allErrors == attempted \cap FailingTrees(in)
      keys == CoreRenderings \cup
              (IF isEnabled(in.threeScale) THEN ThreeScaleRenderings ELSE {})
      fail(e, conf) == [err |-> e, conf |-> conf, renderings |-> renderings,
                        render |-> NoRender]
      render == [enabled |-> in.threeScale, failing |-> FailingTrees(in),
                 attempted |-> attempted, errors |-> allErrors,
                 err |-> IF allErrors = {} THEN "nil" ELSE "aggregate"]
  IN  IF ~in.convert THEN fail("convert", Status.LastAppliedConfiguration)
      ELSE IF applyTemplates(in.tpl, in.pinned, in.disc) # "nil"
           THEN fail(applyTemplates(in.tpl, in.pinned, in.disc), snapshot)
      ELSE IF ~in.valid THEN fail("validate", snapshot)
      ELSE IF ~in.fields THEN fail("fields", snapshot)
      ELSE IF allErrors # {}
           THEN [err |-> "aggregate", conf |-> snapshot, renderings |-> renderings,
                 render |-> render]
      ELSE [err |-> "nil", conf |-> snapshot,
            renderings |-> [nil |-> FALSE, keys |-> keys], render |-> render]

\* what the boundaries of renderCharts can answer
RenderInputs ==
  [convert : BOOLEAN, tpl : {"ok", "template"}, pinned : BOOLEAN, disc : BOOLEAN,
   valid : BOOLEAN, fields : BOOLEAN, coreOK : BOOLEAN,
   threeScale : {"true", "false", "absent"}, tsOK : BOOLEAN]

\* Reconcile, lines 130-138: renderCharts
RenderCharts(in) ==
  /\ pc = "RenderCharts"
  /\ LET r == renderCharts(in)
     IN  /\ Status' = [Status EXCEPT !.LastAppliedConfiguration = r.conf]
         /\ renderings' = r.renderings
         /\ IF r.err # "nil"
            THEN Abort("ReconcileError", "render")
            ELSE pc' = "UpdateNamespace" /\ UNCHANGED <<locals, loop>>
  /\ last' = [Step("RenderCharts") EXCEPT !.tpl = in.tpl,
                                          !.render = renderCharts(in).render]
  /\ stored' = Stored(Status', FALSE)
  /\ UNCHANGED <<Instance, waitForComponents, ownerRefs, meshGeneration, faults,
                 cniEnabled, resolution>>

\* Reconcile, lines 148-177: the labels of the mesh namespace
UpdateNamespace(getOK, updateLabels, updateOK) ==
  /\ pc = "UpdateNamespace"
  /\ IF getOK /\ (updateLabels => updateOK)
     THEN pc' = "InitializeStatus" /\ UNCHANGED <<locals, loop>>
     ELSE Abort("ReconcileError", "namespace")
  /\ last' = Step("UpdateNamespace")
  /\ UNCHANGED <<Instance, Status, session, env, resolution>>

\* the charts of a list of groups, in order
RECURSIVE Flatten(_)
Flatten(gs) == IF gs = <<>> THEN <<>> ELSE Head(gs) \o Flatten(Tail(gs))

\* component statuses that keep what an earlier cycle recorded
InitializeStatus_KeepStatuses(order) ==
  /\ pc = "InitializeStatus"
  /\ ownerRefs' = Instance.generation
  /\ meshGeneration' = CurrentReconciledVersion(Instance.generation)
  /\ pc' = "InstallCRDs"
  /\ last' = Step("InitializeStatus")
  /\ UNCHANGED <<Instance, Status, renderings, waitForComponents, locals, loop, env,
                 resolution>>

\* Reconcile, lines 179-201: component statuses and common data
InitializeStatus(order) ==
  /\ pc = "InitializeStatus"
  /\ LET names == Flatten(order)
     IN  Status' = [Status EXCEPT !.ComponentStatus =
                      [i \in 1..Len(names) |->
                         [Resource |-> componentFromChartName(names[i]),
                          Reconciled |-> "False"]]]
  /\ ownerRefs' = Instance.generation
  /\ meshGeneration' = CurrentReconciledVersion(Instance.generation)
  /\ pc' = "InstallCRDs"
  /\ stored' = Stored(Status', FALSE)
  /\ last' = Step("InitializeStatus")
  /\ UNCHANGED <<Instance, renderings, waitForComponents, locals, loop, faults,
                 cniEnabled, resolution>>

\* Reconcile, lines 203-210: bootstrap.InstallCRDs
InstallCRDs(ok) ==
  /\ pc = "InstallCRDs"
  /\ IF ok
     THEN pc' = "InstallCNI" /\ UNCHANGED <<locals, loop>>
     ELSE Abort("ReconcileError", "crds")
  /\ last' = Step("InstallCRDs")
  /\ UNCHANGED <<Instance, Status, session, env, resolution>>

\* Reconcile, lines 212-225: Istio CNI.  ready and inspectErr are what
\* isCNIReady returns: whether CNI is ready, and whether inspecting it failed
InstallCNI(ok, ready, inspectErr) ==
  /\ pc = "InstallCNI"
  /\ IF ~cniEnabled
     THEN /\ pc' = "ReconcileRBAC"
          /\ last' = Step("InstallCNI")
          /\ UNCHANGED <<waitForComponents, locals, loop>>
     ELSE /\ waitForComponents' = {"cni"}
          /\ IF ~ok
             THEN /\ Abort("ReconcileError", "cni")
                  /\ last' = Step("InstallCNI")
             ELSE /\ last' = [Step("InstallCNI") EXCEPT
                               !.probe = [done |-> TRUE, failed |-> inspectErr,
                                          ready |-> IF ready THEN {"cni"} ELSE {}]]
                  /\ IF ~ready
                     THEN /\ reconciliationReason' = "PausingInstall"
                          /\ reconciliationMessage' = Message("paused")
                          /\ pc' = "Return"
                          /\ UNCHANGED <<err, reconciliationComplete, deferReset,
                                         loop>>
                     ELSE /\ pc' = "ReconcileRBAC"
                          /\ UNCHANGED <<locals, loop>>
  /\ UNCHANGED <<Instance, Status, renderings, ownerRefs, meshGeneration, env,
                 resolution>>

\* Reconcile, lines 227-232: reconcileRBAC
ReconcileRBAC(ok, order) ==
  /\ pc = "ReconcileRBAC"
  /\ IF ok
     THEN EnterInstall(order) /\ UNCHANGED locals
     ELSE Abort("ReconcileError", "rbac")
  /\ last' = Step("ReconcileRBAC")
  /\ UNCHANGED <<Instance, Status, session, env, resolution>>

\* a wait set emptied whatever the components' readiness
notReady_Drop(waiting, readyComponents) == {}

\* a wait set from which the ready components are not deleted
notReady_Keep(waiting, readyComponents) == waiting

\* lines 248 and 279: the components still waited for
notReady(waiting, readyComponents) == waiting \ readyComponents

\* Reconcile, lines 234-252: components a previous invocation waited for.
\* readyComponents and readinessErr are what calculateComponentReadiness
\* returns: the ready components, and whether inspecting them failed
WaitForComponents(readyComponents, readinessErr, order) ==
  /\ pc = "WaitForComponents"
  /\ LET left == notReady(waitForComponents, readyComponents)
     IN  IF readinessErr
         THEN /\ Abort("ProbeError", "probe")
              /\ last' = [Step("WaitForComponents") EXCEPT
                            !.probe = [done |-> TRUE, failed |-> TRUE, ready |-> readyComponents]]
              /\ UNCHANGED waitForComponents
         ELSE /\ waitForComponents' = left
              /\ IF left # {}
                 THEN /\ Pause(left)
                      /\ last' = [Step("WaitForComponents") EXCEPT
                                    !.probe = [done |-> TRUE, failed |-> FALSE, ready |-> readyComponents],
                                    !.events = <<pauseReconciliation(left).event>>]
                 ELSE /\ EnterInstall(order)
                      /\ last' = [Step("WaitForComponents") EXCEPT
                                    !.probe = [done |-> TRUE, failed |-> FALSE, ready |-> readyComponents]]
                      /\ UNCHANGED locals
  /\ UNCHANGED <<Instance, Status, renderings, ownerRefs, meshGeneration, env,
                 resolution>>

\* an install loop that leaves before its last chart group
NextGroup_PruneEarly ==
  /\ pc = "Group"
  /\ IF Len(groups) <= 1
     THEN /\ pc' = "Prune"
          /\ groups' = <<>>
          /\ UNCHANGED <<waitForComponents, charts>>
     ELSE /\ waitForComponents' = {}
          /\ charts' = Head(groups)
          /\ groups' = Tail(groups)
          /\ pc' = "Chart"
  /\ last' = Step("NextGroup")
  /\ UNCHANGED <<Instance, Status, renderings, ownerRefs, meshGeneration, locals, env,
                 resolution>>

\* Reconcile, lines 255-257: the next chart group, or the end of the loop
NextGroup ==
  /\ pc = "Group"
  /\ IF groups = <<>>
     THEN /\ pc' = "Prune"
          /\ UNCHANGED <<waitForComponents, loop>>
     ELSE /\ waitForComponents' = {}
          /\ charts' = Head(groups)
          /\ groups' = Tail(groups)
          /\ pc' = "Chart"
  /\ last' = Step("NextGroup")
  /\ UNCHANGED <<Instance, Status, renderings, ownerRefs, meshGeneration, locals, env,
                 resolution>>

\* Reconcile, lines 257-269: processComponentManifests of the next chart
ProcessComponentManifests(ok, hasReadiness) ==
  /\ pc = "Chart"
  /\ LET chart == Head(charts)
         component == componentFromChartName(chart)
     IN  IF ~ok
         THEN /\ Abort("ReconcileError", "component")
              /\ UNCHANGED waitForComponents
         ELSE /\ waitForComponents' =
                   IF hasReadiness THEN waitForComponents \cup {component}
                   ELSE waitForComponents
              /\ charts' = Tail(charts)
              /\ pc' = IF Tail(charts) = <<>> THEN "Readiness" ELSE "Chart"
              /\ UNCHANGED <<groups, locals>>
  /\ last' = Step("ProcessComponentManifests")
  /\ UNCHANGED <<Instance, Status, renderings, ownerRefs, meshGeneration, env,
                 resolution>>

\* an install loop that goes on to the next group when inspecting the
\* components of the group just installed fails
GroupReadiness_IgnoreError(readyComponents, readyErr) ==
  /\ pc = "Readiness"
  /\ LET left == notReady(waitForComponents, readyComponents)
         probe == [done |-> TRUE, failed |-> readyErr, ready |-> readyComponents]
     IN  IF waitForComponents = {}
         THEN /\ pc' = "Group"
              /\ last' = Step("GroupReadiness")
              /\ UNCHANGED <<waitForComponents, locals, loop>>
         ELSE IF readyErr \/ left = {}
         THEN /\ pc' = "Group"
              /\ waitForComponents' = {}
              /\ last' = [Step("GroupReadiness") EXCEPT !.probe = probe]
              /\ UNCHANGED <<locals, loop>>
         ELSE /\ waitForComponents' = left
              /\ Pause(left)
              /\ last' = [Step("GroupReadiness") EXCEPT
                            !.probe = probe,
                            !.events = <<pauseReconciliation(left).event>>]
  /\ UNCHANGED <<Instance, Status, renderings, ownerRefs, meshGeneration, env,
                 resolution>>

\* Reconcile, lines 271-283: readiness of the group just installed
GroupReadiness(readyComponents, readyErr) ==
  /\ pc = "Readiness"
  /\ IF waitForComponents = {}
     THEN /\ pc' = "Group"
          /\ last' = Step("GroupReadiness")
          /\ UNCHANGED <<waitForComponents, locals, loop>>
     ELSE LET left == notReady(waitForComponents, readyComponents)
              probe == [done |-> TRUE, failed |-> readyErr, ready |-> readyComponents]
          IN  IF readyErr
              THEN /\ Pause(waitForComponents)
                   /\ last' = [Step("GroupReadiness") EXCEPT
                                 !.probe = probe,
                                 !.events = <<pauseReconciliation(waitForComponents).event>>]
                   /\ UNCHANGED waitForComponents
              ELSE /\ waitForComponents' = left
                   /\ IF left # {}
                      THEN /\ Pause(left)
                           /\ last' = [Step("GroupReadiness") EXCEPT
                                         !.probe = probe,
                                         !.events = <<pauseReconciliation(left).event>>]
                      ELSE /\ pc' = "Group"
                           /\ last' = [Step("GroupReadiness") EXCEPT !.probe = probe]
                           /\ UNCHANGED <<locals, loop>>
  /\ UNCHANGED <<Instance, Status, renderings, ownerRefs, meshGeneration, env,
                 resolution>>

\* a prune whose failure does not end the cycle
Prune_CompleteOnError(ok) ==
  /\ pc = "Prune"
  /\ last' = [Step("Prune") EXCEPT !.events = <<Event("Normal", "Pruning", {})>>]
  /\ pc' = "Complete"
  /\ reconciliationMessage' = Message(IF ok THEN "pruning" ELSE "error")
  /\ reconciliationReason' = IF ok THEN reconciliationReason ELSE "ReconcileError"
  /\ err' = IF ok THEN err ELSE "prune"
  /\ UNCHANGED <<reconciliationComplete, deferReset, loop>>
  /\ UNCHANGED <<Instance, Status, session, env, resolution>>

\* Reconcile, lines 286-298: prune
Prune(ok) ==
  /\ pc = "Prune"
  /\ last' = [Step("Prune") EXCEPT !.events = <<Event("Normal", "Pruning", {})>>]
  /\ IF ok
     THEN /\ reconciliationMessage' = Message("pruning")
          /\ pc' = "Complete"
          /\ UNCHANGED <<err, reconciliationReason, reconciliationComplete, deferReset,
                         loop>>
     ELSE Abort("ReconcileError", "prune")
  /\ UNCHANGED <<Instance, Status, session, env, resolution>>

\* updateControlPlaneConditions: the Reconciled condition follows the error
updateControlPlaneConditions(st, e) ==
  LET c == GetCondition(st, "Reconciled")
  IN  SetCondition(st, "Reconciled",
                   [c EXCEPT !.status = IF e = "nil" THEN "True" ELSE "False"])

\* Reconcile, lines 300-315: the cycle completes
Complete ==
  /\ pc = "Complete"
  /\ reconciliationReason' = IF isUpdating THEN "UpdateSuccessful" ELSE "InstallSuccessful"
  /\ reconciliationMessage' = Message("success")
  /\ last' = [Step("Complete") EXCEPT !.events =
               <<Event("Normal", IF isUpdating THEN "Updated" ELSE "Installed", {})>>]
  /\ Status' = updateControlPlaneConditions(
                 [Status EXCEPT !.ObservedGeneration = Instance.generation,
                                !.ReconciledVersion = meshGeneration], "nil")
  /\ reconciliationComplete' = TRUE
  /\ pc' = "Return"
  /\ stored' = Stored(Status', FALSE)
  /\ UNCHANGED <<Instance, session, err, deferReset, loop, faults, cniEnabled,
                 resolution>>

\* postReconciliationStatus on working status st: readinessOK is whether
\* updateReadinessStatus succeeds
postReconciliationStatus(st, reason, message, processingErr, readinessOK, getResp, patchResp) ==
  IF ~readinessOK
  THEN [err |-> "readiness", status |-> st, events |-> <<>>,
        posts |-> 0, gets |-> 0, patches |-> 0, written |-> FALSE]
  ELSE LET c == GetCondition(st, "Reconciled")
           m == IF processingErr = "nil" THEN message
                ELSE [message EXCEPT !.cause = TRUE]
           st2 == SetCondition(st, "Reconciled", [c EXCEPT !.reason = reason, !.message = m])
           post == PostStatus(st2, getResp, patchResp)
       IN  [err |-> post.err, status |-> st2,
            events |-> IF processingErr = "nil" THEN <<>>
                       ELSE <<Event("Warning",
                                    IF isUpdating THEN "Updating" ELSE "Installing", {})>>,
            posts |-> 1, gets |-> post.gets,
            patches |-> post.patches, written |-> post.written]

\* lines 109-111: whether hacks.ReduceLikelihoodOfRepeatedReconciliation, a
\* delay of two seconds, is called at the end of the finalize defer
ReduceLikelihoodOfRepeatedReconciliation(complete) == complete

\* a return that drops the renderings of a failed cycle
Return_ClearRenderings(readinessOK, getResp, patchResp) ==
  /\ pc = "Return"
  /\ LET reset == deferReset /\ err # "nil"
         st1 == IF reset THEN updateControlPlaneConditions(Status, err) ELSE Status
         fin == postReconciliationStatus(st1, reconciliationReason, reconciliationMessage,
                                         err, readinessOK, getResp, patchResp)
     IN  /\ waitForComponents' = IF reset THEN {} ELSE waitForComponents
         /\ Status' = fin.status
         /\ stored' = Stored(fin.status, fin.written)
         /\ CountFault(Fault(readinessOK, fin, getResp, patchResp))
         /\ last' = [Step("Return") EXCEPT
                       !.events = fin.events, !.posts = fin.posts,
                       !.gets = fin.gets, !.patches = fin.patches,
                       !.returned = IF err = "nil" THEN fin.err ELSE err,
                       !.debounce = ReduceLikelihoodOfRepeatedReconciliation(
                                      reconciliationComplete)]
  /\ pc' = "idle"
  /\ err' = "nil"
  /\ reconciliationReason' = ""
  /\ reconciliationMessage' = NoMessage
  /\ reconciliationComplete' = FALSE
  /\ deferReset' = FALSE
  /\ groups' = <<>>
  /\ charts' = <<>>
  /\ renderings' = IF err # "nil" THEN NilRenderings ELSE renderings
  /\ UNCHANGED <<Instance, ownerRefs, meshGeneration, cniEnabled, resolution>>

\* Reconcile returns: the deferred functions of lines 116-121 and 100-112
Return(readinessOK, getResp, patchResp) ==
  /\ pc = "Return"
  /\ LET reset == deferReset /\ err # "nil"
         st1 == IF reset THEN updateControlPlaneConditions(Status, err) ELSE Status
         fin == postReconciliationStatus(st1, reconciliationReason, reconciliationMessage,
                                         err, readinessOK, getResp, patchResp)
     IN  /\ waitForComponents' = IF reset THEN {} ELSE waitForComponents
         /\ Status' = fin.status
         /\ stored' = Stored(fin.status, fin.written)
         /\ CountFault(Fault(readinessOK, fin, getResp, patchResp))
         /\ last' = [Step("Return") EXCEPT
                       !.events = fin.events, !.posts = fin.posts,
                       !.gets = fin.gets, !.patches = fin.patches,
                       !.returned = IF err = "nil" THEN fin.err ELSE err,
                       !.debounce = ReduceLikelihoodOfRepeatedReconciliation(
                                      reconciliationComplete)]
  /\ pc' = "idle"
  /\ err' = "nil"
  /\ reconciliationReason' = ""
  /\ reconciliationMessage' = NoMessage
  /\ reconciliationComplete' = FALSE
  /\ deferReset' = FALSE
  /\ groups' = <<>>
  /\ charts' = <<>>
  /\ UNCHANGED <<Instance, renderings, ownerRefs, meshGeneration, cniEnabled,
                 resolution>>

\* SetInstance keeping the wait set across generations
SetInstance_KeepWait(newInstance) ==
  /\ pc = "idle"
  /\ IF newInstance.generation # Instance.generation
     THEN /\ renderings' = NilRenderings
          /\ Status' = SetCondition(Status, "Reconciled",
                                    [status |-> "Unknown", reason |-> "",
                                     message |-> NoMessage])
          /\ UNCHANGED waitForComponents
     ELSE UNCHANGED <<renderings, waitForComponents, Status>>
  /\ Instance' = newInstance
  /\ last' = [Step("SetInstance") EXCEPT
                !.changed = newInstance.generation # Instance.generation]
  /\ stored' = Stored(Status', FALSE)
  /\ pc' = "start"
  /\ UNCHANGED <<ownerRefs, meshGeneration, locals, loop, faults, cniEnabled,
                 resolution>>

\* SetInstance
SetInstance(newInstance) ==
  /\ pc = "idle"
  /\ IF newInstance.generation # Instance.generation
     THEN /\ renderings' = NilRenderings
          /\ waitForComponents' = {}
          /\ Status' = SetCondition(Status, "Reconciled",
                                    [status |-> "Unknown", reason |-> "",
                                     message |-> NoMessage])
     ELSE UNCHANGED <<renderings, waitForComponents, Status>>
  /\ Instance' = newInstance
  /\ last' = [Step("SetInstance") EXCEPT
                !.changed = newInstance.generation # Instance.generation]
  /\ stored' = Stored(Status', FALSE)
  /\ pc' = "start"
  /\ UNCHANGED <<ownerRefs, meshGeneration, locals, loop, faults, cniEnabled,
                 resolution>>

\* the instances the framework delivers before an invocation: the resource as
\* the cluster stores it, at the same or the next generation
NewInstances ==
  [generation : {Instance.generation, Instance.generation + 1} \cap 1..MaxGen,
   status : IF stored THEN {Status} ELSE {Instance.status}]

Next ==
  \/ \E g \in Responses, p \in Responses : ReconcileInitialize(g, p)
  \/ \E order \in InstallPlan : ReconcileBegin(order)
  \/ \E ok \in BOOLEAN : ParseVersion(ok)
  \/ \E in \in RenderInputs : RenderCharts(in)
  \/ \E a \in BOOLEAN, b \in BOOLEAN, c \in BOOLEAN : UpdateNamespace(a, b, c)
  \/ \E order \in InstallPlan : InitializeStatus(order)
  \/ \E ok \in BOOLEAN : InstallCRDs(ok)
  \/ \E a \in BOOLEAN, b \in BOOLEAN, c \in BOOLEAN : InstallCNI(a, b, c)
  \/ \E ok \in BOOLEAN, order \in InstallPlan : ReconcileRBAC(ok, order)
  \/ \E ready \in SUBSET waitForComponents, e \in BOOLEAN, order \in InstallPlan :
       WaitForComponents(ready, e, order)
  \/ NextGroup
  \/ \E a \in BOOLEAN, b \in BOOLEAN : ProcessComponentManifests(a, b)
  \/ \E ready \in SUBSET waitForComponents, e \in BOOLEAN : GroupReadiness(ready, e)
  \/ \E ok \in BOOLEAN : Prune(ok)
  \/ Complete
  \/ \E r \in BOOLEAN, g \in Responses, p \in Responses : Return(r, g, p)
  \/ \E ni \in NewInstances : SetInstance(ni)

Spec == Init /\ [][Next]_vars

\* ------------------------------------------------------------------ PostStatus

\* PostStatus, called on its own
PostStatusCall(getResp, patchResp) ==
  /\ pc = "idle"
  /\ LET post == PostStatus(Status, getResp, patchResp)
     IN  /\ stored' = Stored(Status, post.written)
         /\ last' = [Step("PostStatus") EXCEPT
                       !.posts = 1, !.gets = post.gets, !.patches = post.patches,
                       !.get = getResp, !.patch = patchResp, !.returned = post.err]
  /\ UNCHANGED <<pc, Instance, Status, session, locals, loop, faults, cniEnabled,
                 resolution>>

\* statuses PostStatus is called with: of a resource never reconciled, of one
\* whose status was initialized, of one that paused and of one that completed
Initialized(st) ==
  LET cond == [status |-> "False", reason |-> "ResourceCreated",
               message |-> Message("ready")]
  IN  SetCondition(SetCondition(SetCondition(st, "Installed", cond),
                                "Reconciled", cond), "Ready", cond)
Paused(st) ==
  SetCondition(st, "Reconciled",
               [status |-> "False", reason |-> "PausingInstall",
                message |-> Message("paused")])
Completed(st) ==
  SetCondition([st EXCEPT !.ObservedGeneration = 1,
                          !.ReconciledVersion = CurrentReconciledVersion(1)],
               "Reconciled",
               [status |-> "True", reason |-> "InstallSuccessful",
                message |-> Message("success")])
PostStatuses ==
  {EmptyStatus, Initialized(EmptyStatus), Paused(Initialized(EmptyStatus)),
   Completed(Initialized(EmptyStatus))}

\* a reconciler between invocations, holding any of these statuses
InitPost ==
  /\ NewReconciler
  /\ Status \in PostStatuses
  /\ Instance \in [generation : {1}, status : PostStatuses]
  /\ NoResolution

NextPost == \E g \in Responses, p \in Responses : PostStatusCall(g, p)

PostSpec == InitPost /\ [][NextPost]_vars

\* ------------------------------------------------------------------ applyTemplates

\* getSMCPTemplate: its error and the parent template the loaded template names
getSMCPTemplate(name) ==
  IF name \notin TemplateFiles THEN [err |-> "name", template |-> ""]
  ELSE IF files[name] = "missing" THEN [err |-> "load", template |-> ""]
  ELSE IF files[name] = "unparsable" THEN [err |-> "parse", template |-> ""]
  ELSE [err |-> "nil", template |-> files[name]]

\* applyTemplates, lines 473-490: the default template, a new visited set
ApplyTemplatesBegin ==
  /\ result.phase = "none"
  /\ call' = IF smcp.template = "" THEN DefaultTemplate ELSE smcp.template
  /\ visited' = {}
  /\ result' = [phase |-> "resolving", err |-> "nil"]
  /\ last' = Step("applyTemplates")
  /\ UNCHANGED <<reconciler, files, smcp, stack, merged, pins, values, crd, readySet>>

\* recursivelyApplyTemplates, lines 391-407: a call is entered; it returns at
\* once, or loads its template and calls itself on it
RecursivelyApplyTemplates ==
  /\ result.phase = "resolving"
  /\ IF call = ""
     THEN /\ result' = [phase |-> IF stack = <<>> THEN "resolved" ELSE "returning",
                        err |-> "nil"]
          /\ UNCHANGED <<stack, call>>
     ELSE IF call \in visited
          THEN /\ result' = [phase |-> "resolved", err |-> "cycle"]
               /\ stack' = <<>>
               /\ UNCHANGED call
          ELSE IF getSMCPTemplate(call).err # "nil"
               THEN /\ result' = [phase |-> "resolved", err |-> getSMCPTemplate(call).err]
                    /\ stack' = <<>>
                    /\ UNCHANGED call
               ELSE /\ Len(stack) < MaxDepth
                    /\ stack' = Append(stack, call)
                    /\ call' = getSMCPTemplate(call).template
                    /\ UNCHANGED result
  /\ last' = Step("recursivelyApplyTemplates")
  /\ UNCHANGED <<reconciler, files, smcp, visited, merged, pins, values, crd, readySet>>

\* recursivelyApplyTemplates, lines 408-417: the inner call returned without
\* error; the template is marked visited and its values merged
TemplateMerge ==
  /\ result.phase = "returning"
  /\ stack # <<>>
  /\ LET name == stack[Len(stack)]
     IN  /\ visited' = visited \cup {name}
         /\ merged' = Append(merged, name)
  /\ stack' = SubSeq(stack, 1, Len(stack) - 1)
  /\ result' = [phase |-> IF Len(stack) = 1 THEN "resolved" ELSE "returning",
                err |-> "nil"]
  /\ last' = Step("mergeValues")
  /\ UNCHANGED <<reconciler, files, smcp, call, pins, values, crd, readySet>>

\* applyTemplates, lines 490-503: disconnected-install settings and the result
ApplyTemplatesEnd(disc) ==
  /\ result.phase = "resolved"
  /\ result' = [phase |-> "done",
                err |-> applyTemplates(IF result.err = "nil" THEN "ok" ELSE result.err,
                                       smcp.pinned, disc)]
  /\ last' = [Step("applyTemplates") EXCEPT
                !.tpl = IF result.err = "nil" THEN "ok" ELSE result.err,
                !.substituted = ~smcp.pinned]
  /\ UNCHANGED <<reconciler, files, smcp, stack, call, visited, merged, pins, values,
                 crd, readySet>>

\* a reconciler about to resolve the templates of a spec, over any contents
\* of the template files
InitTemplates ==
  /\ NewReconciler
  /\ Instance = [generation |-> 1, status |-> EmptyStatus]
  /\ Status = EmptyStatus
  /\ files \in [TemplateFiles -> FileContents]
  /\ smcp \in [template : TemplateRefs, pinned : BOOLEAN]
  /\ stack = <<>>
  /\ call = ""
  /\ visited = {}
  /\ merged = <<>>
  /\ result = [phase |-> "none", err |-> "nil"]
  /\ pins \in SUBSET TemplateFiles
  /\ values = NoValues
  /\ crd = NoCRD
  /\ readySet = {}

NextTemplates ==
  \/ ApplyTemplatesBegin
  \/ RecursivelyApplyTemplates
  \/ TemplateMerge
  \/ \E disc \in BOOLEAN : ApplyTemplatesEnd(disc)

TemplateSpec == InitTemplates /\ [][NextTemplates]_vars

\* ------------------------------------------------------------------ install order

\* the charts a rendering can hold: those of orderedCharts, two more charts
\* of the istio tree and two charts of other trees
RenderableCharts ==
  ChartsOf(orderedCharts) \cup {nodeagent, certmanager, threescale, istioInit}

\* getChartsInInstallationOrder is called on the renderings held
GetChartsInInstallationOrder ==
  /\ last.op = "New"
  /\ groups' \in getChartsInInstallationOrder(renderings.keys)
  /\ last' = Step("getChartsInInstallationOrder")
  /\ UNCHANGED <<pc, Instance, Status, session, locals, charts, env, resolution>>

\* a reconciler holding renderings of any set of charts
InitOrder ==
  /\ pc = "idle"
  /\ renderings \in [nil : {FALSE}, keys : SUBSET RenderableCharts]
  /\ waitForComponents = {}
  /\ ownerRefs = 0
  /\ meshGeneration = NoVersion
  /\ cniEnabled = FALSE
  /\ err = "nil"
  /\ reconciliationReason = ""
  /\ reconciliationMessage = NoMessage
  /\ reconciliationComplete = FALSE
  /\ deferReset = FALSE
  /\ groups = <<>>
  /\ charts = <<>>
  /\ stored = TRUE
  /\ faults = 0
  /\ last = Step("New")
  /\ Instance = [generation |-> 1, status |-> EmptyStatus]
  /\ Status = EmptyStatus
  /\ NoResolution

NextOrder == GetChartsInInstallationOrder

OrderSpec == InitOrder /\ [][NextOrder]_vars

\* ------------------------------------------------------------------ mergeValues

\* a merge in which the input values replace the base values on conflict
RECURSIVE mergeValues_InputWins(_, _)
mergeValues_InputWins(base, input) ==
  LET b == Entries(base)
      in == Entries(input)
  IN  Map([key \in DOMAIN b \cup DOMAIN in |->
             IF key \notin DOMAIN in THEN b[key]
             ELSE IF key \in DOMAIN b /\ b[key].kind = "map" /\ in[key].kind = "map"
                  THEN mergeValues_InputWins(b[key], in[key])
                  ELSE in[key]])

\* mergeValues: a nil base is replaced by an empty map; the keys of input
\* are added unless base has them; a key of both is merged when both values
\* are maps and left as it is in base otherwise
RECURSIVE mergeValues(_, _)
mergeValues(base, input) ==
  LET b == Entries(base)
      in == Entries(input)
  IN  Map([key \in DOMAIN b \cup DOMAIN in |->
             IF key \notin DOMAIN b THEN in[key]
             ELSE IF key \in DOMAIN in /\ b[key].kind = "map" /\ in[key].kind = "map"
                  THEN mergeValues(b[key], in[key])
                  ELSE b[key]])

\* mergeValues is called on the values held
MergeValues ==
  /\ values.out.kind = "none"
  /\ values' = [values EXCEPT !.out = mergeValues(values.base, values.input)]
  /\ last' = Step("mergeValues")
  /\ UNCHANGED <<reconciler, files, smcp, stack, call, visited, merged, result, pins,
                 crd, readySet>>

\* a reconciler about to merge any base values with any input values
InitMerge ==
  /\ NewReconciler
  /\ Instance = [generation |-> 1, status |-> EmptyStatus]
  /\ Status = EmptyStatus
  /\ files = [f \in TemplateFiles |-> ""]
  /\ smcp = [template |-> "", pinned |-> FALSE]
  /\ stack = <<>>
  /\ call = ""
  /\ visited = {}
  /\ merged = <<>>
  /\ result = [phase |-> "none", err |-> "nil"]
  /\ pins = {}
  /\ crd = NoCRD
  /\ readySet = {}
  /\ values \in [base : BaseValues, input : InputValues, out : {[kind |-> "none"]}]

NextMerge == MergeValues

MergeSpec == InitMerge /\ [][NextMerge]_vars

\* ------------------------------------------------------------------ CRD schema

\* a JSONSchemaProps: its Type, another field of it (Format), and its
\* sub-schemas: sub maps a position that is set to the schemas held there,
\* by index for a list, by key for a map, under "." for a pointer
SchemaTypes == {"object", "string", ""}
SchemaFormats == {"", "int32"}
ArrayPositions == {"oneOf", "anyOf", "allOf", "items.jsonSchemas"}
MapPositions == {"properties", "patternProperties", "definitions"}
PointerPositions == {"not", "items.schema", "additionalProperties", "additionalItems"}
DependencyPositions == {"dependencies"}
SchemaPositions ==
  ArrayPositions \cup MapPositions \cup PointerPositions \cup DependencyPositions
NoSubSchemas == [p \in {} |-> Nil]
Schema(type, format, sub) == [type |-> type, format |-> format, sub |-> sub]

\* the key sets a position can have
PositionKeys(p) ==
  IF p \in ArrayPositions THEN {{"0"}, {"0", "1"}}
  ELSE IF p \in PointerPositions THEN {{"."}}
  ELSE {{"a"}, {"a", "b"}}

\* schemas without sub-schemas; schemas with one position set, which holds
\* one or two of the former; schemas with every position set; a schema with
\* one position set, which holds a schema with one position set
LeafSchemas == {Schema(t, f, NoSubSchemas) : t \in SchemaTypes, f \in SchemaFormats}
SingleKey(p) == CHOOSE K \in PositionKeys(p) : Cardinality(K) = 1
SchemasOver(children, single) ==
  UNION {UNION {{Schema(l.type, l.format, [q \in {p} |-> held]) :
                   held \in UNION {[K -> children] :
                                     K \in IF single THEN {SingleKey(p)}
                                           ELSE PositionKeys(p)}} :
                p \in SchemaPositions} : l \in LeafSchemas}
FlatSchemas == SchemasOver(LeafSchemas, FALSE)
NarrowSchemas == SchemasOver(LeafSchemas, TRUE)
WideSchemas ==
  {Schema(l.type, l.format, [p \in SchemaPositions |-> [k \in SingleKey(p) |-> c]]) :
     l \in LeafSchemas, c \in LeafSchemas}
DeepSchema(l, p, c) ==
  Schema(l.type, l.format, [q \in {p} |-> [k \in SingleKey(p) |-> c]])
ValidationSchemas == {Nil} \cup LeafSchemas \cup FlatSchemas \cup WideSchemas
CRDOf(s) == [original |-> s, previous |-> s, schema |-> s, calls |-> 0, err |-> "nil"]

\* a sanitizer that does not visit the dependencies
RECURSIVE removeTypeObjectField_NoDependencies(_)
removeTypeObjectField_NoDependencies(schema) ==
  IF schema = Nil THEN schema
  ELSE Schema(IF schema.type = "object" THEN "" ELSE schema.type,
              schema.format,
              [p \in DOMAIN schema.sub |->
                 IF p \in DependencyPositions THEN schema.sub[p]
                 ELSE [k \in DOMAIN schema.sub[p] |->
                         removeTypeObjectField_NoDependencies(schema.sub[p][k])]])

RECURSIVE removeTypeObjectField(_)
RECURSIVE removeTypeObjectFieldFromArray(_)
RECURSIVE removeTypeObjectFieldFromMap(_)

\* removeTypeObjectField: the schema it leaves
removeTypeObjectField(schema) ==
  IF schema = Nil THEN schema
  ELSE Schema(IF schema.type = "object" THEN "" ELSE schema.type,
              schema.format,
              [p \in DOMAIN schema.sub |->
                 IF p \in {"oneOf", "anyOf", "allOf", "items.jsonSchemas"}
                 THEN removeTypeObjectFieldFromArray(schema.sub[p])
                 ELSE IF p \in {"properties", "patternProperties", "definitions"}
                 THEN removeTypeObjectFieldFromMap(schema.sub[p])
                 ELSE IF p \in {"not", "items.schema", "additionalProperties",
                                "additionalItems"}
                 THEN [k \in DOMAIN schema.sub[p] |->
                         removeTypeObjectField(schema.sub[p][k])]
                 ELSE IF p = "dependencies"
                 THEN [k \in DOMAIN schema.sub[p] |->
                         removeTypeObjectField(schema.sub[p][k])]
                 ELSE schema.sub[p]])

\* removeTypeObjectFieldFromArray
removeTypeObjectFieldFromArray(array) ==
  [i \in DOMAIN array |-> removeTypeObjectField(array[i])]

\* removeTypeObjectFieldFromMap
removeTypeObjectFieldFromMap(m) ==
  [k \in DOMAIN m |-> removeTypeObjectField(m[k])]

\* RemoveTypeObjectFieldsFromCRDSchema is called on the CRD, up to twice
RemoveTypeObjectFieldsFromCRDSchema ==
  /\ crd.calls < MaxCalls
  /\ crd' = IF crd.schema = Nil
            THEN [crd EXCEPT !.calls = @ + 1, !.previous = crd.schema,
                             !.err = "no schema"]
            ELSE [crd EXCEPT !.calls = @ + 1, !.previous = crd.schema,
                             !.schema = removeTypeObjectField(crd.schema),
                             !.err = "nil"]
  /\ last' = Step("RemoveTypeObjectFieldsFromCRDSchema")
  /\ UNCHANGED <<reconciler, files, smcp, stack, call, visited, merged, result, pins,
                 values, readySet>>

\* a CRD with any of the validation schemas, or with none
InitSchema ==
  /\ NewReconciler
  /\ Instance = [generation |-> 1, status |-> EmptyStatus]
  /\ Status = EmptyStatus
  /\ files = [f \in TemplateFiles |-> ""]
  /\ smcp = [template |-> "", pinned |-> FALSE]
  /\ stack = <<>>
  /\ call = ""
  /\ visited = {}
  /\ merged = <<>>
  /\ result = [phase |-> "none", err |-> "nil"]
  /\ pins = {}
  /\ values = NoValues
  /\ readySet = {}
  /\ \/ \E s \in ValidationSchemas : crd = CRDOf(s)
     \/ \E l \in LeafSchemas, p \in SchemaPositions, c \in NarrowSchemas :
          crd = CRDOf(DeepSchema(l, p, c))

NextSchema == RemoveTypeObjectFieldsFromCRDSchema

SchemaSpec == InitSchema /\ [][NextSchema]_vars

\* ------------------------------------------------------------------ restart

\* the status a process persisted for generation gen when its cycle paused:
\* observed is the generation it had completed before (0 for none); the
\* first component was reconciled before the pause
PersistedPaused(gen, observed) ==
  LET created == [status |-> "False",
                  reason |-> IF observed = 0 THEN "ResourceCreated" ELSE "SpecUpdated",
                  message |-> Message("ready")]
  IN  [conditions |->
         [t \in ConditionTypes |->
            IF t = "Reconciled"
            THEN [status |-> "False",
                  reason |-> IF observed = 0 THEN "PausingInstall" ELSE "PausingUpdate",
                  message |-> Message("paused")]
            ELSE created],
       ObservedGeneration |-> observed,
       ReconciledVersion |-> IF observed = 0 THEN NoVersion
                             ELSE CurrentReconciledVersion(observed),
       LastAppliedConfiguration |-> [generation |-> gen],
       ComponentStatus |->
         <<[Resource |-> "istio", Reconciled |-> "True"],
           [Resource |-> "mixer", Reconciled |-> "False"],
           [Resource |-> "pilot", Reconciled |-> "False"]>>]

\* the resources a restarted process finds: paused in the first installation
\* or in an update
RestartInstances ==
  {[generation |-> g, status |-> PersistedPaused(g, g - 1)] : g \in 1..MaxGen}

\* NewControlPlaneInstanceReconciler in a new process: the reconciler holds
\* the stored resource and a copy of its status, and nothing else
InitRestart ==
  /\ NewReconciler
  /\ Instance \in RestartInstances
  /\ Status = Instance.status
  /\ NoResolution

RestartSpec == InitRestart /\ [][Next]_vars

\* ------------------------------------------------------------------ progress

\* Reconcile is invoked again and again for one generation, no operation
\* fails, and the readiness computations report the components of readySet,
\* which only grows

\* the components a readiness computation can report
ReadyComponents ==
  {componentFromChartName(c) : c \in CoreRenderings \cup ThreeScaleRenderings}
    \cup {"cni"}

\* a component becomes ready
BecomesReady(c) ==
  /\ c \notin readySet
  /\ readySet' = readySet \cup {c}
  /\ UNCHANGED <<reconciler, last, files, smcp, stack, call, visited, merged, result,
                 pins, values, crd>>

\* the instance the framework delivers: the stored resource, same generation
SameInstance ==
  [generation |-> Instance.generation,
   status |-> IF stored THEN Status ELSE Instance.status]

\* the steps of SetInstance and Reconcile when nothing fails
ReconcileWithoutFailure ==
  \/ ReconcileInitialize("ok", "ok")
  \/ pc = "start" /\ \E order \in InstallPlan : ReconcileBegin(order)
  \/ ParseVersion(TRUE)
  \/ /\ pc = "RenderCharts"
     /\ \E in \in RenderInputs : renderCharts(in).err = "nil" /\ RenderCharts(in)
  \/ \E updateLabels \in BOOLEAN : UpdateNamespace(TRUE, updateLabels, TRUE)
  \/ pc = "InitializeStatus" /\ \E order \in InstallPlan : InitializeStatus(order)
  \/ InstallCRDs(TRUE)
  \/ InstallCNI(TRUE, "cni" \in readySet, FALSE)
  \/ pc = "ReconcileRBAC" /\ \E order \in InstallPlan : ReconcileRBAC(TRUE, order)
  \/ /\ pc = "WaitForComponents"
     /\ \E order \in InstallPlan :
          WaitForComponents(waitForComponents \cap readySet, FALSE, order)
  \/ NextGroup
  \/ \E hasReadiness \in BOOLEAN : ProcessComponentManifests(TRUE, hasReadiness)
  \/ GroupReadiness(waitForComponents \cap readySet, FALSE)
  \/ Prune(TRUE)
  \/ Complete
  \/ Return(TRUE, "ok", "ok")
  \/ SetInstance(SameInstance)

\* one more component becomes ready
SomeBecomesReady == \E c \in ReadyComponents : BecomesReady(c)

NextProgress ==
  \/ ReconcileWithoutFailure
  \/ SomeBecomesReady

\* the framework keeps invoking the reconciler, whose steps are synchronous,
\* and every component becomes ready at some time
ProgressSpec ==
  /\ Init
  /\ [][NextProgress]_vars
  /\ WF_vars(ReconcileWithoutFailure)
  /\ WF_vars(SomeBecomesReady)

\* ------------------------------------------------------------------ properties

Reconciled == GetCondition(Status, "Reconciled")
PausingReason == IF isUpdating THEN "PausingUpdate" ELSE "PausingInstall"
\* the steps of the rendering phase, lines 114-232, and the positions before them
RenderingSteps ==
  {"ParseVersion", "RenderCharts", "UpdateNamespace", "InitializeStatus",
   "InstallCRDs", "InstallCNI", "ReconcileRBAC"}
ComponentsOf(group) == {componentFromChartName(c) : c \in Range(group)}
FalseCondition(reason) ==
  [status |-> "False", reason |-> reason, message |-> Message("ready")]

\* C1: an invocation that finds the Reconciled condition absent, Unknown or
\* True is over in one step: it sets Reconciled and Ready to False, sets
\* Installed to False only when isUpdating is false, changes nothing else of
\* the status, posts the status once, emits the Installing or Updating event
\* and leaves renderings, wait set and install loop as it found them; no
\* rendering, chart or prune step belongs to it.
C1_UninitializedOnlyInitializes ==
  [][(pc = "start" /\ Reconciled.status # "False") =>
       LET reason == IF isUpdating THEN "SpecUpdated" ELSE "ResourceCreated"
       IN  /\ pc' = "idle"
           /\ last'.op = "ReconcileInitialize"
           /\ Status'.conditions["Reconciled"] = FalseCondition(reason)
           /\ Status'.conditions["Ready"] = FalseCondition(reason)
           /\ Status'.conditions["Installed"] =
                IF isUpdating THEN Status.conditions["Installed"]
                ELSE FalseCondition(reason)
           /\ [Status' EXCEPT !.conditions = Status.conditions] = Status
           /\ last'.posts = 1
           /\ last'.events =
                <<Event("Normal", IF isUpdating THEN "Updating" ELSE "Installing", {})>>
           /\ UNCHANGED <<renderings, waitForComponents, ownerRefs, meshGeneration,
                          groups, charts>>]_vars

\* C1 witness: the status of a resource that completed before was initialized
\* again, the Installed condition keeping what the installation left
C1_Witness ==
  /\ last.op = "ReconcileInitialize"
  /\ isUpdating
  /\ Status.conditions["Reconciled"] = FalseCondition("SpecUpdated")
  /\ Status.conditions["Installed"].reason = "ResourceCreated"

\* C2: wherever readiness is evaluated, a failed inspection ends the cycle
\* with an error and reason ProbeError, and a successful inspection never
\* gives ProbeError: it lets the cycle go on or ends it Paused without error.
C2_ProbeErrorNeverPaused ==
  last.probe.done =>
    IF last.probe.failed
    THEN pc = "Return" /\ err # "nil" /\ reconciliationReason = "ProbeError"
    ELSE pc = "Return" =>
           err = "nil" /\ reconciliationReason \in {"PausingInstall", "PausingUpdate"}

\* C3: no template is entered again while its resolution is still open: a
\* chain that comes back to an open template stops with the cycle error.
C3_CycleStopsResolution ==
  \A i \in 1..Len(stack), j \in 1..Len(stack) : i # j => stack[i] # stack[j]

\* C4: when template resolution fails, renderCharts fails: the cycle aborts
\* with an error and reason ReconcileError and no renderings are cached,
\* whatever the disconnected-install substitution does.
C4_TemplateFailureAborts ==
  (last.op = "RenderCharts" /\ last.tpl # "ok") =>
    /\ pc = "Return"
    /\ err # "nil"
    /\ reconciliationReason = "ReconcileError"
    /\ renderings.nil

\* C5: after a group's manifests are applied and readiness was computed
\* without error, the cycle pauses exactly when a probed component of the
\* group is not ready: then no error is set, the wait set is exactly the
\* probed components that are not ready, one pause event lists them, and the
\* return that follows neither prunes, nor sets Reconciled to True, nor
\* changes the wait set.  The probed components are components of the group.
C5_PauseAfterGroup ==
  /\ [][(pc = "Readiness" /\ last'.probe.done /\ ~last'.probe.failed) =>
          LET unready == waitForComponents \ last'.probe.ready
          IN  IF unready = {}
              THEN pc' = "Group"
              ELSE /\ pc' = "Return"
                   /\ err' = "nil"
                   /\ ~reconciliationComplete'
                   /\ waitForComponents' = unready
                   /\ last'.events = <<Event("Normal", PausingReason, unready)>>
                   /\ reconciliationReason' = PausingReason
                   /\ Status' = Status]_vars
  /\ [][(pc = "Return" /\ last.op = "GroupReadiness") =>
          /\ waitForComponents' = waitForComponents
          /\ Status'.conditions["Reconciled"].status = "False"
          /\ \A i \in 1..Len(last'.events) : last'.events[i].reason # "Pruning"]_vars
  /\ [][(pc = "Chart" /\ pc' = "Readiness") =>
          waitForComponents' \subseteq ComponentsOf(charts) \cup waitForComponents]_vars
  /\ [][(pc = "Group" /\ pc' = "Chart") => waitForComponents' = {}]_vars

\* C5 witness: a group of two probed components was installed, one is ready,
\* the other is not, and the cycle is about to return paused on that one
C5_Witness ==
  /\ pc = "Return"
  /\ last.op = "GroupReadiness"
  /\ ~last.probe.failed
  /\ last.probe.ready = {"mixer"}
  /\ waitForComponents = {"pilot"}
  /\ err = "nil"

\* the position in plan order of the group the components comps belong to
GroupIndex(order, comps) ==
  CHOOSE i \in 1..Len(order) : comps \subseteq ComponentsOf(order[i])

\* C6 as stated: an invocation that finds the components of group k it
\* waited for ready goes on with group k+1.
C6_ResumesAtNextGroup ==
  [][(/\ pc = "WaitForComponents"
      /\ pc' = "Group"
      /\ \E order \in getChartsInInstallationOrder(renderings.keys) :
           \E i \in 1..Len(order) : waitForComponents \subseteq ComponentsOf(order[i])) =>
       \E order \in getChartsInInstallationOrder(renderings.keys) :
         groups' = SubSeq(order, GroupIndex(order, waitForComponents) + 1, Len(order))]_vars

\* C6 amended: an invocation that finds the components it waited for ready
\* renders nothing and enters the install loop with the whole install plan:
\* it visits the chart groups from the first one again, in install order,
\* and so reaches group k+1 only after the groups before it.
C6_ResumesFromFirstGroup ==
  /\ [][(pc = "WaitForComponents" /\ pc' = "Group") =>
          /\ waitForComponents \ last'.probe.ready = {}
          /\ groups' \in getChartsInInstallationOrder(renderings.keys)
          /\ groups' # <<>>
          /\ UNCHANGED <<renderings, Status>>]_vars
  /\ [][(pc = "Group" /\ pc' = "Chart") =>
          charts' = Head(groups) /\ groups' = Tail(groups)]_vars
  /\ [][(pc = "WaitForComponents") => ~deferReset]_vars
  /\ [][(pc' \in RenderingSteps) => deferReset']_vars

\* C6 witness: the invocation waited for the second chart group, found its
\* components ready and is about to visit the first group
C6_Witness ==
  /\ last.op = "WaitForComponents"
  /\ pc = "Group"
  /\ last.probe.ready = {"mixer", "pilot"}
  /\ Head(groups) = <<istio>>

\* C7: a cycle that ends without error and without completing is paused: it
\* records the reason PausingUpdate when isUpdating and PausingInstall
\* otherwise, and its last step emitted the event of that reason.
C7_PauseReasonAndEvent ==
  (pc = "Return" /\ err = "nil" /\ ~reconciliationComplete) =>
    /\ reconciliationReason = PausingReason
    /\ \E i \in 1..Len(last.events) : last.events[i].reason = PausingReason

\* C8: SetInstance with another generation clears the renderings, empties
\* the wait set and sets Reconciled to Unknown, touching nothing else of the
\* status; with the same generation it leaves renderings, wait set and
\* status alone; either way the delivered instance is held afterwards.
C8_SetInstanceFrame ==
  [][(pc = "idle" /\ pc' = "start") =>
       /\ last'.op = "SetInstance"
       /\ Instance' \in NewInstances
       /\ last'.changed = (Instance'.generation # Instance.generation)
       /\ IF Instance'.generation # Instance.generation
          THEN /\ renderings' = NilRenderings
               /\ waitForComponents' = {}
               /\ Status'.conditions["Reconciled"].status = "Unknown"
               /\ \A t \in {"Ready", "Installed"} :
                    Status'.conditions[t] = Status.conditions[t]
               /\ [Status' EXCEPT !.conditions = Status.conditions] = Status
          ELSE UNCHANGED <<renderings, waitForComponents, Status>>]_vars

\* C8 witness: an instance of the next generation was delivered to a
\* reconciler that had rendered the previous one
C8_Witness ==
  /\ last.op = "SetInstance"
  /\ last.changed
  /\ Instance.generation = 2
  /\ ownerRefs = 1
  /\ renderings.nil
  /\ Reconciled.status = "Unknown"

\* C9 as stated: PostStatus makes exactly one patch attempt whenever the
\* working status differs from the held instance's status.
C9_ExactlyOnePatch ==
  (last.op = "PostStatus" /\ Status # Instance.status) => last.patches = 1

\* C9 amended: PostStatus makes no request when the working status equals
\* the held instance's status; otherwise it fetches the resource once and
\* makes one patch attempt when the fetch succeeds and none when it fails;
\* it returns an error exactly when the fetch or the patch fails with a
\* response other than not-found or gone.
C9_PostStatusWrites ==
  last.op = "PostStatus" =>
    IF Status = Instance.status
    THEN last.gets = 0 /\ last.patches = 0 /\ last.returned = "nil"
    ELSE /\ last.gets = 1
         /\ last.patches = (IF last.get = "ok" THEN 1 ELSE 0)
         /\ (last.returned # "nil") <=>
              \/ last.get = "error"
              \/ last.get = "ok" /\ last.patch = "error"

\* C9 witness: the status differed, the fetch answered not-found, and
\* PostStatus returned success without a patch attempt
C9_Witness ==
  /\ last.op = "PostStatus"
  /\ Status # Instance.status
  /\ last.get = "notfound"
  /\ last.patches = 0
  /\ last.returned = "nil"

\* C10: a failure of a step of the rendering phase ends the cycle with
\* reason ReconcileError, and the wait set is emptied on return.
C10_RenderingFailure ==
  (pc = "Return" /\ err # "nil" /\ last.op \in RenderingSteps) =>
    /\ reconciliationReason = "ReconcileError"
    /\ deferReset \/ waitForComponents = {}

\* an invocation that found renderings cached when it began (line 114): the
\* error-handling defer is registered only in the other invocations
ResumedCycle == pc \notin {"idle", "start"} /\ ~deferReset

\* C11: an invocation that began with renderings cached and ends with an
\* error (readiness inspection, chart manifests, prune) leaves the wait set
\* empty when it returns.
C11_ResumedErrorResets ==
  [][(pc = "Return" /\ ResumedCycle /\ err # "nil") => waitForComponents' = {}]_vars

\* a component leaves the wait set because readiness was computed and
\* reported it ready (lines 247 and 278), or it is "cni", reported ready by
\* isCNIReady, when the install loop begins (line 256)
RemovedWhenReady(c) ==
  \/ last'.probe.done /\ ~last'.probe.failed /\ c \in last'.probe.ready
  \/ pc = "Group" /\ last.op = "ReconcileRBAC" /\ c = "cni"

\* the whole wait set is discarded: SetInstance with another generation
\* (line 684), or the error-handling defer (line 118)
WaitSetDiscarded ==
  /\ waitForComponents' = {}
  /\ \/ last'.op = "SetInstance" /\ last'.changed
     \/ pc = "Return" /\ deferReset /\ err # "nil"

PruningEvent(step) == \E i \in 1..Len(step.events) : step.events[i].reason = "Pruning"

\* C13: pruning runs exactly when the install loop has visited every chart
\* group of the install plan: the loop is entered with the whole plan, takes
\* the groups one by one, leaves at once when a chart's manifests fail (with
\* an error) or a probed component is not ready (paused), and reaches the
\* prune step only with no group left, no error and an empty wait set.  The
\* prune step runs whether or not isUpdating, emits the Pruning event, and
\* is the only way to completion: Reconciled becomes True only in the step
\* after a successful prune.
C13_PruneAfterAllGroups ==
  /\ [][(pc' = "Group" /\ pc \notin {"Group", "Readiness"}) => groups' \in InstallPlan]_vars
  /\ [][(pc = "Group" /\ groups # <<>>) =>
          pc' = "Chart" /\ charts' = Head(groups) /\ groups' = Tail(groups)]_vars
  /\ [][(pc = "Chart") =>
          \/ /\ pc' = "Return"
             /\ err' # "nil"
             /\ reconciliationReason' = "ReconcileError"
          \/ /\ charts' = Tail(charts)
             /\ pc' = (IF Tail(charts) = <<>> THEN "Readiness" ELSE "Chart")
             /\ UNCHANGED <<groups, err>>]_vars
  /\ [][(pc = "Readiness") =>
          \/ pc' = "Group" /\ waitForComponents' = {} /\ UNCHANGED <<groups, err>>
          \/ pc' = "Return" /\ waitForComponents' # {} /\ ~reconciliationComplete']_vars
  /\ [][(pc' = "Prune") =>
          /\ pc = "Group"
          /\ groups = <<>>
          /\ waitForComponents' = {}
          /\ err' = "nil"]_vars
  /\ [][(pc = "Prune") =>
          /\ PruningEvent(last')
          /\ \/ pc' = "Complete" /\ err' = "nil"
             \/ pc' = "Return" /\ err' # "nil" /\ ~reconciliationComplete']_vars
  /\ [][PruningEvent(last') => pc = "Prune"]_vars
  /\ [][(pc' = "Complete") => pc = "Prune"]_vars
  /\ [][(reconciliationComplete' \/ (Reconciled.status # "True" /\ Reconciled'.status = "True")) =>
          pc = "Complete"]_vars

\* C13 witness: an update (isUpdating) has pruned and is about to complete
C13_Witness ==
  /\ last.op = "Prune"
  /\ PruningEvent(last)
  /\ pc = "Complete"
  /\ isUpdating
  /\ Instance.generation = 2

\* C14: when a cycle completes, the working status has ObservedGeneration
\* equal to the instance's generation, ReconciledVersion equal to the token
\* of that generation and Reconciled True; the reason is UpdateSuccessful
\* when isUpdating and InstallSuccessful otherwise, and the one event of
\* the completing step is Updated, respectively Installed; the debounce
\* runs only at the return of a cycle that completed, after the status post.
C14_Completion ==
  /\ last.op = "Complete" =>
       /\ pc = "Return"
       /\ reconciliationComplete
       /\ Status.ObservedGeneration = Instance.generation
       /\ Status.ReconciledVersion = CurrentReconciledVersion(Instance.generation)
       /\ Reconciled.status = "True"
       /\ reconciliationReason =
            (IF isUpdating THEN "UpdateSuccessful" ELSE "InstallSuccessful")
       /\ last.events =
            <<Event("Normal", IF isUpdating THEN "Updated" ELSE "Installed", {})>>
  /\ last.debounce =>
       /\ last.op = "Return"
       /\ last.posts = 1 \/ last.returned = "readiness"
       /\ Status.ObservedGeneration = Instance.generation

\* C15: every return of Reconcile past the early return of line 92 runs the
\* finalize step, which makes one status post; when the cycle failed, the
\* cause is appended to the message of the Reconciled condition, one warning
\* event of reason Updating (isUpdating) or Installing is emitted and the
\* cycle's own error is returned; when the cycle did not fail, no warning is
\* emitted and the invocation returns the result of the status post.
C15_FinalizeOnEveryExit ==
  [][(pc = "Return") =>
       /\ last'.op = "Return"
       /\ last'.posts = 1
       /\ Status'.conditions["Reconciled"].reason = reconciliationReason
       /\ IF err # "nil"
          THEN /\ Status'.conditions["Reconciled"].message =
                    [reconciliationMessage EXCEPT !.cause = TRUE]
               /\ last'.events =
                    <<Event("Warning", IF isUpdating THEN "Updating" ELSE "Installing", {})>>
               /\ last'.returned = err
          ELSE /\ Status'.conditions["Reconciled"].message = reconciliationMessage
               /\ last'.events = <<>>
               /\ last'.returned \in {"nil", "status"}]_vars

\* what the rendering phase sets up before the install loop (lines 130-201)
SetupDone ==
  /\ ~renderings.nil
  /\ Status.LastAppliedConfiguration = [generation |-> Instance.generation]
  /\ ownerRefs = Instance.generation
  /\ meshGeneration = CurrentReconciledVersion(Instance.generation)

\* C16: a newly constructed reconciler holds no renderings, an empty wait
\* set, no owner reference and no generation token.  An invocation that finds
\* Reconciled False and no renderings begins with the rendering phase and
\* never with the wait for components; it renders the charts, sets every
\* component status to Reconciled False for exactly the rendered components,
\* and reaches the install loop, where charts are applied, only with the
\* setup of the rendering phase done for the instance's generation.
C16_RestartRendersAgain ==
  /\ [](last.op = "New" =>
          /\ pc = "idle"
          /\ renderings = NilRenderings
          /\ waitForComponents = {}
          /\ ownerRefs = 0
          /\ meshGeneration = NoVersion
          /\ Status = Instance.status)
  /\ [][(pc = "start" /\ renderings.nil /\ Reconciled.status = "False") =>
          /\ pc' = "ParseVersion"
          /\ deferReset'
          /\ UNCHANGED <<Status, renderings, waitForComponents>>]_vars
  /\ [](deferReset => pc # "WaitForComponents")
  /\ [][(deferReset /\ pc = "RenderCharts" /\ pc' # "Return") =>
          /\ renderings.nil
          /\ renderings' = [nil |-> FALSE,
                            keys |-> renderings'.keys \cup CoreRenderings]]_vars
  /\ [][(pc = "InitializeStatus") =>
          /\ {Status'.ComponentStatus[i].Resource : i \in 1..Len(Status'.ComponentStatus)}
               = {componentFromChartName(c) : c \in renderings.keys}
          /\ \A i \in 1..Len(Status'.ComponentStatus) :
               Status'.ComponentStatus[i].Reconciled = "False"]_vars
  /\ []((deferReset /\ pc \in {"Group", "Chart", "Readiness", "Prune", "Complete"}) =>
          SetupDone)
  /\ [][(deferReset' /\ pc' = "Group" /\ pc \notin {"Group", "Readiness"}) =>
          pc = "ReconcileRBAC" /\ groups' \in InstallPlan]_vars

\* C16 witness: a process restarted on a resource paused in its first
\* installation, one component reconciled, has rendered again, set every
\* component status to False and is about to apply the first chart
C16_Witness ==
  /\ pc = "Chart"
  /\ deferReset
  /\ charts = <<istio>>
  /\ Instance.status = PersistedPaused(1, 0)
  /\ Status.ComponentStatus[1] = [Resource |-> "istio", Reconciled |-> "False"]
  /\ SetupDone

\* C17: renderings that exist are left as they are by every step of every
\* Reconcile invocation, whether it completes, pauses or fails; they change
\* only when SetInstance delivers another generation, which clears them, and
\* they come into being only in the renderCharts step of an invocation that
\* found none.
C17_RenderingsCached ==
  /\ [][(~renderings.nil /\ renderings' # renderings) =>
          /\ last'.op = "SetInstance"
          /\ Instance'.generation # Instance.generation
          /\ renderings' = NilRenderings]_vars
  /\ [][(renderings.nil /\ renderings' # renderings) =>
          pc = "RenderCharts" /\ deferReset /\ ~renderings'.nil]_vars
  /\ [][(last'.op = "SetInstance" /\ Instance'.generation = Instance.generation) =>
          renderings' = renderings]_vars
  /\ [](pc = "RenderCharts" => renderings.nil)

\* C17 witness: an invocation that began with renderings cached failed in
\* its readiness inspection and returned; the renderings are still cached
C17_Witness ==
  /\ last.op = "Return"
  /\ last.returned = "probe"
  /\ ~renderings.nil
  /\ pc = "idle"

\* out holds what C18 says of merging base with input: no key of base is
\* missing and none is there that neither has; a key of input alone has
\* input's value; a key of both whose values are both maps is merged by the
\* same rule; every other key of base has base's value
RECURSIVE BaseWins(_, _, _)
BaseWins(base, input, out) ==
  /\ out.kind = "map"
  /\ DOMAIN out.m = DOMAIN Entries(base) \cup DOMAIN Entries(input)
  /\ \A key \in DOMAIN out.m :
       IF key \notin DOMAIN Entries(base) THEN out.m[key] = input.m[key]
       ELSE IF key \in DOMAIN Entries(input) /\ base.m[key].kind = "map"
                 /\ input.m[key].kind = "map"
            THEN BaseWins(base.m[key], input.m[key], out.m[key])
            ELSE out.m[key] = base.m[key]

\* C18: mergeValues(base, input) adds the keys of input that base lacks with
\* input's values, merges the keys of both whose two values are maps by the
\* same rule, keeps base's value for every other key of base whatever the
\* types, and removes no key of base.
C18_BaseWins ==
  values.out.kind # "none" => BaseWins(values.base, values.input, values.out)

\* C18 witness: mergeValues({a:1, b:{x:1}}, {b:{x:2,y:2}, c:3}) has returned
\* {a:1, b:{x:1,y:2}, c:3}
C18_Witness ==
  /\ values.base = Map([k \in {"a", "b"} |->
                          IF k = "a" THEN Scalar(1)
                          ELSE Map([j \in {"x"} |-> Scalar(1)])])
  /\ values.input = Map([k \in {"b", "c"} |->
                           IF k = "c" THEN Scalar(3)
                           ELSE Map([j \in {"x", "y"} |-> Scalar(2)])])
  /\ values.out = Map([k \in {"a", "b", "c"} |->
                         IF k = "a" THEN Scalar(1)
                         ELSE IF k = "c" THEN Scalar(3)
                         ELSE Map([j \in {"x", "y"} |->
                                     IF j = "x" THEN Scalar(1) ELSE Scalar(2)])])

\* the predefined groups restricted to the charts keys, the empty ones left out
PredefinedGroups(keys) ==
  SelectSeq([j \in 1..Len(orderedCharts) |->
               SelectSeq(orderedCharts[j], LAMBDA c : c \in keys)],
            LAMBDA g : g # <<>>)

\* plan is an install plan for the rendered charts keys as C19 describes it
InstallOrder(keys, plan) ==
  LET n == Len(PredefinedGroups(keys))
      rest == keys \ ChartsOf(orderedCharts)
  IN  /\ \A i \in 1..Len(plan) : plan[i] # <<>>
      /\ Range(Flatten(plan)) = keys
      /\ Len(Flatten(plan)) = Cardinality(keys)
      /\ Len(plan) = n + Cardinality(rest)
      /\ SubSeq(plan, 1, n) = PredefinedGroups(keys)
      /\ \A i \in (n + 1)..Len(plan) : Len(plan[i]) = 1 /\ plan[i][1] \in rest
      /\ \A i \in (n + 1)..Len(plan), j \in (n + 1)..Len(plan) :
           (HasIstioPrefix(plan[i][1]) /\ ~HasIstioPrefix(plan[j][1])) => i < j

\* C19: for any set of rendered charts, the groups getChartsInInstallationOrder
\* returns hold every rendered chart exactly once and no other chart, none
\* is empty, the predefined groups restricted to the rendered charts come
\* first in their fixed order, then the other charts of prefix istio/ as
\* singleton groups, then every remaining chart as a singleton group.
C19_InstallOrder ==
  last.op = "getChartsInInstallationOrder" => InstallOrder(renderings.keys, groups)

\* C19 witness: of the group of four only pilot and gateways are rendered, no
\* chart of three predefined groups is, and a chart of each other kind is
C19_Witness ==
  /\ last.op = "getChartsInInstallationOrder"
  /\ renderings.keys = {istio, galley, pilot, gateways, kiali, nodeagent, threescale}
  /\ groups = << <<istio>>, <<galley>>, <<pilot, gateways>>, <<kiali>>,
                 <<nodeagent>>, <<threescale>> >>

\* the values resolution leaves set global.tag or global.hub: the spec's own
\* values do, or, merged underneath them, those of a template of the chain
ResolvedPinned == smcp.pinned \/ \E i \in 1..Len(merged) : merged[i] \in pins

\* C20: when applyTemplates is done, the disconnected-install substitution
\* was skipped if the resolved values set global.tag or global.hub and ran
\* if they set neither; it ran only after template resolution had completed,
\* on the merged values; and a spec naming no template was resolved with the
\* default template.
C20_SubstitutionAfterResolution ==
  result.phase = "done" =>
    /\ last.tpl = "ok" => (last.substituted <=> ~ResolvedPinned)
    /\ last.substituted => last.tpl = "ok"
    /\ (last.tpl = "ok" /\ smcp.template = "") =>
         merged # <<>> /\ merged[Len(merged)] = DefaultTemplate

\* every schema of a schema tree, the root included
RECURSIVE SchemaNodes(_)
SchemaNodes(schema) ==
  {schema} \cup UNION {UNION {SchemaNodes(schema.sub[p][k]) : k \in DOMAIN schema.sub[p]} :
                         p \in DOMAIN schema.sub}

\* after is before with every Type "object" emptied and nothing else changed
RECURSIVE OnlyObjectRemoved(_, _)
OnlyObjectRemoved(before, after) ==
  /\ after.type = (IF before.type = "object" THEN "" ELSE before.type)
  /\ after.format = before.format
  /\ DOMAIN after.sub = DOMAIN before.sub
  /\ \A p \in DOMAIN before.sub :
       /\ DOMAIN after.sub[p] = DOMAIN before.sub[p]
       /\ \A k \in DOMAIN before.sub[p] :
            OnlyObjectRemoved(before.sub[p][k], after.sub[p][k])

\* C21: once RemoveTypeObjectFieldsFromCRDSchema was called on a CRD with a
\* validation schema, no schema of the tree, at any position, has Type
\* "object", every other field of every schema is what it was, and a second
\* call has changed nothing.
C21_NoTypeObject ==
  (crd.calls > 0 /\ crd.original # Nil) =>
    /\ crd.err = "nil"
    /\ \A n \in SchemaNodes(crd.schema) : n.type # "object"
    /\ OnlyObjectRemoved(crd.original, crd.schema)
    /\ crd.calls > 1 => crd.schema = crd.previous

\* C21 witness: the sanitizer was called twice on a schema of Type object
\* that has a schema of Type object at every position
C21_Witness ==
  /\ crd.calls = 2
  /\ crd.original # Nil
  /\ crd.original.type = "object"
  /\ DOMAIN crd.original.sub = SchemaPositions
  /\ \A n \in SchemaNodes(crd.original) : n.type = "object"
  /\ crd.schema # crd.original


\* the install loop takes the first chart of a group
GroupBegins == pc = "Group" /\ pc' = "Chart"

\* C22 as stated: the install loop goes on from a chart group to the next one
\* only after a readiness computation that reported no probed component of
\* the group as unready.
C22_NextGroupAfterReadiness ==
  [][(pc = "Readiness" /\ pc' = "Group") =>
       /\ last'.probe.done
       /\ ~last'.probe.failed
       /\ waitForComponents \subseteq last'.probe.ready]_vars

\* C22 amended: within an invocation the charts of a group are applied only
\* after every chart of the group before it was applied without error and,
\* when a chart of that group has a readiness probe, after a readiness
\* computation that followed the group succeeded and reported none of its
\* probed components as unready; when no chart of the group has a readiness
\* probe, no readiness computation is made and the next group follows at
\* once.  The loop is entered at the first group of the install plan.
C22_NextGroupAfterGroup ==
  /\ [][GroupBegins =>
          /\ charts' = Head(groups)
          /\ groups' = Tail(groups)
          /\ waitForComponents' = {}]_vars
  /\ [][(pc' = "Group") =>
          \/ pc = "Readiness" /\ charts = <<>> /\ UNCHANGED groups
          \/ pc \notin {"Group", "Chart", "Readiness"} /\ groups' \in InstallPlan]_vars
  /\ [][(pc' = "Readiness") =>
          /\ pc = "Chart"
          /\ Tail(charts) = <<>>
          /\ charts' = <<>>
          /\ err' = "nil"]_vars
  /\ [][(pc = "Chart") =>
          \/ pc' = "Return" /\ err' # "nil"
          \/ /\ pc' \in {"Chart", "Readiness"}
             /\ charts' = Tail(charts)
             /\ err' = "nil"
             /\ waitForComponents \subseteq waitForComponents'
             /\ waitForComponents' \subseteq
                  waitForComponents \cup {componentFromChartName(Head(charts))}
             /\ UNCHANGED groups]_vars
  /\ [][(pc = "Chart" /\ pc' = "Chart") => charts' # <<>>]_vars
  /\ [][(pc = "Readiness" /\ pc' = "Group") =>
          IF waitForComponents = {}
          THEN ~last'.probe.done
          ELSE /\ last'.probe.done
               /\ ~last'.probe.failed
               /\ waitForComponents \subseteq last'.probe.ready
               /\ waitForComponents' = {}]_vars
  /\ [][(pc = "Readiness" /\ pc' # "Group") =>
          /\ pc' = "Return"
          /\ last'.probe.done
          /\ last'.probe.failed \/ ~(waitForComponents \subseteq last'.probe.ready)]_vars

\* C22 witness: the readiness computation after a group found its probed
\* components ready, and another group is left to apply
C22_Witness ==
  /\ last.op = "GroupReadiness"
  /\ pc = "Group"
  /\ last.probe.done
  /\ ~last.probe.failed
  /\ last.probe.ready # {}
  /\ groups # <<>>


\* C23: once the configuration is resolved, renderCharts renders the istio
\* tree and, exactly when the enabled field of the 3scale section is true,
\* the maistra-threescale tree, whether or not the istio tree failed.  When a
\* tree it rendered fails, it returns the aggregate of the errors of all the
\* failing trees and leaves the renderings nil; when none fails, it returns
\* no error and the renderings are the charts of both trees.
C23_NoPartialRendering ==
  /\ [][(pc = "RenderCharts" /\ last'.render.attempted # {}) =>
          LET r == last'.render
          IN  /\ r.attempted = {"istio"} \cup
                   (IF r.enabled = "true" THEN {"maistra-threescale"} ELSE {})
              /\ r.errors = r.attempted \cap r.failing
              /\ IF r.errors # {}
                 THEN /\ r.err = "aggregate"
                      /\ pc' = "Return"
                      /\ err' # "nil"
                      /\ renderings'.nil
                      /\ renderings'.keys = {}
                 ELSE /\ r.err = "nil"
                      /\ err' = "nil"
                      /\ pc' # "Return"
                      /\ ~renderings'.nil
                      /\ renderings'.keys =
                           CoreRenderings \cup
                           (IF r.enabled = "true" THEN ThreeScaleRenderings ELSE {})]_vars
  /\ [][(pc = "RenderCharts" /\ last'.render.attempted = {}) =>
          pc' = "Return" /\ err' # "nil" /\ renderings'.nil]_vars
  /\ [][(renderings.nil /\ ~renderings'.nil) =>
          pc = "RenderCharts" /\ last'.render.errors = {}]_vars
  /\ [](pc = "RenderCharts" => renderings.nil)

\* C23 witness: both trees were rendered, both failed, and the invocation
\* returns with two errors collected and no renderings
C23_Witness ==
  /\ last.op = "RenderCharts"
  /\ last.render.errors = {"istio", "maistra-threescale"}
  /\ pc = "Return"
  /\ renderings.nil


\* IsFinished
IsFinished == GetCondition(Status, "Reconciled").status = "True"

\* lines 198-201 were reached by an invocation for the generation of the
\* instance held: the owner reference and the generation token are the ones
\* of that generation.  They are assigned after the namespace labels and the
\* component statuses and before the CRDs, CNI and RBAC.
CommonDataOfGeneration ==
  /\ ownerRefs = Instance.generation
  /\ meshGeneration = CurrentReconciledVersion(Instance.generation)

\* C24: the manifests of a chart are applied only when, for the generation
\* of the instance held, the rendering phase went through the namespace
\* labels, the component statuses, the CRDs, CNI and RBAC; so at least the
\* common data assigned between them is the one of that generation.
C24_ChartsAfterSetup ==
  pc = "Chart" => CommonDataOfGeneration

\* whenever IsFinished holds, ObservedGeneration is the generation held
FinishedAtHeldGeneration ==
  IsFinished => Status.ObservedGeneration = Instance.generation

\* C25: prune is invoked, and a cycle completes, with the generation token
\* and the owner reference of the generation of the instance held; the
\* completing step stores that token as ReconciledVersion, and whenever
\* IsFinished holds ObservedGeneration is the generation of the instance.
C25_TokenOfHeldGeneration ==
  /\ pc \in {"Prune", "Complete"} => CommonDataOfGeneration
  /\ last.op = "Complete" =>
       Status.ReconciledVersion = CurrentReconciledVersion(Instance.generation)
  /\ FinishedAtHeldGeneration


\* the invocation is returning paused: without an error, from a readiness
\* step or from the CNI step
ReturnsPaused ==
  /\ pc = "Return"
  /\ err = "nil"
  /\ ~reconciliationComplete

\* C26 as stated: an invocation that returns an error has not set
\* ObservedGeneration or ReconciledVersion, nor Reconciled to True.
C26_ErrorNeverCompletes ==
  [][(pc = "Return" /\ last'.returned # "nil") =>
       /\ ~reconciliationComplete
       /\ ~IsFinished']_vars

\* C26 amended: an invocation that returns paused, or whose reconciliation
\* failed, leaves ObservedGeneration and ReconciledVersion as they were and
\* Reconciled False.  These change, and IsFinished becomes true, only in the
\* completing step, which follows a successful prune at the end of an install
\* loop that left no group, no chart and no component to wait for.  An
\* invocation that completed can still return an error, that of its
\* finalize step (the readiness update or the status post): it has then set
\* ObservedGeneration and ReconciledVersion, and IsFinished is true.
C26_OnlyCompletionFinishes ==
  /\ [][(pc # "Complete") =>
          /\ Status'.ObservedGeneration = Status.ObservedGeneration
          /\ Status'.ReconciledVersion = Status.ReconciledVersion
          /\ IsFinished' => IsFinished]_vars
  /\ [][(pc \notin {"idle", "start", "Complete"} /\ ~reconciliationComplete) =>
          ~IsFinished /\ ~IsFinished']_vars
  /\ [][(pc' = "Return" /\ (err' # "nil" \/ ReturnsPaused')) =>
          ~reconciliationComplete' /\ ~IsFinished']_vars
  /\ [][(pc = "Return" /\ ~reconciliationComplete) =>
          /\ ~IsFinished'
          /\ Reconciled'.status = "False"]_vars
  /\ [][(pc = "Complete") =>
          /\ last.op = "Prune"
          /\ err = "nil"
          /\ waitForComponents = {}
          /\ groups = <<>> /\ charts = <<>>
          /\ IsFinished'
          /\ reconciliationComplete'
          /\ pc' = "Return"]_vars
  /\ [][(pc = "Return" /\ reconciliationComplete) =>
          /\ err = "nil"
          /\ IsFinished /\ IsFinished'
          /\ last'.returned \in {"nil", "readiness", "status"}]_vars

\* C26 witness: prune failed, and the invocation has returned that error
\* with Reconciled False
C26_Witness ==
  /\ last.op = "Return"
  /\ last.returned = "prune"
  /\ Reconciled.status = "False"
  /\ ~IsFinished


\* C27: when the reconciler is invoked again and again for one generation,
\* no operation fails and every component becomes ready and stays ready, a
\* cycle completes: IsFinished becomes true.
C27_EventuallyFinished == <>IsFinished

\* C27 witness: a cycle has completed and returned after every component
\* became ready
C27_Witness ==
  /\ IsFinished
  /\ pc = "idle"
  /\ last.debounce
  /\ readySet = ReadyComponents

====
